---- MODULE Spec2Model ----
(***************************************************************************)
(* KrutiDev -> Unicode Devanagari transcoder, src/unicode.py               *)
(* (krutidev_to_unicode).  A Python str is modelled as a sequence of       *)
(* characters; a character is a one-character TLA+ string for printable    *)
(* ASCII ("d", "Z", "\n") and "uXXXX" for the code point U+XXXX otherwise. *)
(***************************************************************************)
EXTENDS Integers, Sequences, FiniteSets, TLC

VARIABLES pc, input, kru_text, result

vars == <<pc, input, kru_text, result>>

\* two calls of krutidev_to_unicode in progress at once: the position,
\* argument and return value of each call, and the kru_text of each frame
VARIABLES calls, frames

cvars == <<calls, frames>>

\* HindiPDFTranslator.krutidev_to_unicode_convert: the position in the
\* method, its argument, its local unicode_text and the dict item the loop
\* is at
VARIABLES t_pc, text, unicode_text, item

tvars == <<t_pc, text, unicode_text, item>>

\* a GroqClient object (client, current_model_index) and one invocation of
\* its chat_completion: the position in the method, the loop variable, the
\* max_retries argument, the API calls made so far as (model, outcome)
\* pairs, and what the invocation returned or raised
VARIABLES client, current_model_index, g_pc, attempt, max_retries, log, outcome

gvars == <<client, current_model_index, g_pc, attempt, max_retries, log, outcome>>

\* one request to /process-pdf: the position in process_pdf, the temporary
\* file, the exceptions raised so far (the last one is the one in flight)
\* and the response sent
VARIABLES p_pc, temp_file, p_raised, p_response

pvars == <<p_pc, temp_file, p_raised, p_response>>

\* one request to /chatbot/query: the position in chatbot_query, the request
\* body, the locals query and session_id, the exceptions raised so far and
\* the response sent
VARIABLES q_pc, request, query, session_id, q_raised, q_response

qvars == <<q_pc, request, query, session_id, q_raised, q_response>>

\* what a step of the single call leaves alone
not_vars == <<cvars, tvars, gvars, pvars, qvars>>

\* what a step of the concurrent calls leaves alone
not_cvars == <<vars, tvars, gvars, pvars, qvars>>

\* what a step of the mapping-keyed converter leaves alone
not_tvars == <<vars, cvars, gvars, pvars, qvars>>

\* what a step of the Groq client leaves alone
not_gvars == <<vars, cvars, tvars, pvars, qvars>>

\* what a step of process_pdf leaves alone
not_pvars == <<vars, cvars, tvars, gvars, qvars>>

\* what a step of chatbot_query leaves alone
not_qvars == <<vars, cvars, tvars, gvars, pvars>>

\* the variables of the two endpoints
svars == <<pvars, qvars>>

(***************************************************************************)
(* Bounds of the model                                                     *)
(***************************************************************************)
MaxLen == 3

\* characters the bounded inputs are built from: the two markers, a
\* consonant, a vowel sign, the line break and the pre-built "fa" glyph
Alphabet == {"f", "Z", "d", "k", "\n", "u00c7"}

\* the literal scenarios
Str_Hkkjr == <<"H", "k", "k", "j", "r">>
Str_fd == <<"f", "d">>
Str_vkt == <<"v", "k", "t">>

\* a dash as last character, a dash before a space, before a consonant
Str_dash_end == <<"Z", "f", "u2013">>
Str_dash_space == <<"u2013", " ", "d">>
Str_dash_consonant == <<"u2013", "d">>

\* a vowel sign after two spaces
Str_spaces_matra == <<" ", " ", "k">>

\* the marker 'f' before a half consonant and a consonant
Str_fDd == <<"f", "D", "d">>

\* a space before the reph marker
Str_space_Z == <<"d", " ", "Z">>

\* characters of no rule: after the marker 'f', and two viramas
Str_plain == <<"f", "!", "7">>
Str_viramas == <<"u094d", "u094d">>

\* the anusvara code before the vowel-sign code 'k'; a backslash, which a
\* late rule turns into '?', before 'k'
Str_ak == <<"a", "k">>
Str_backslash_k == <<"\\", "k">>

\* the reph marker after a consonant and an independent vowel
Str_dvZ == <<"d", "v", "Z">>

\* a consonant before the two codes whose replacements hold a reph marker
Str_reph_codes == <<"d", "u00ca", "u00b1">>

\* the two patterns that stand behind a rule that consumes them
Str_amp == <<"d", "&">>
Str_tilde_space == <<"d", "~", " ">>

Scenarios ==
    {Str_Hkkjr, Str_fd, Str_vkt, Str_dash_end, Str_dash_space,
     Str_dash_consonant, Str_spaces_matra, Str_fDd, Str_space_Z,
     Str_plain, Str_viramas, Str_ak, Str_backslash_k, Str_dvZ, Str_reph_codes, Str_amp, Str_tilde_space}

BoundedStrings == UNION {[1..n -> Alphabet] : n \in 0..MaxLen}

Inputs == BoundedStrings \cup Scenarios

(***************************************************************************)
(* Python str primitives                                                   *)
(***************************************************************************)
\* the str values.  Python evaluates an argument once, before the call;
\* the operators below that are handed the result of another call take it
\* through a function on Str, since a function is applied to the value of
\* its argument.
Str == Seq(STRING)

\* s.startswith(sub, i - 1)  (i is 1-based)
MatchAt(s, sub, i) ==
    /\ i + Len(sub) - 1 <= Len(s)
    /\ \A j \in 1..Len(sub) : s[i + j - 1] = sub[j]

\* sub in s
Contains(s, sub) == \E i \in 1..(Len(s) - Len(sub) + 1) : MatchAt(s, sub, i)

\* s.index(sub) + 1; 0 when sub does not occur (Python raises ValueError)
Find(s, sub) ==
    IF Contains(s, sub)
    THEN CHOOSE i \in 1..(Len(s) - Len(sub) + 1) :
            /\ MatchAt(s, sub, i)
            /\ \A j \in 1..(i - 1) : ~MatchAt(s, sub, j)
    ELSE 0

\* s.replace(old, new): every non-overlapping occurrence, left to right
RECURSIVE ReplaceFrom(_, _, _, _)
ReplaceFrom(s, old, new, i) ==
    IF i > Len(s) THEN <<>>
    ELSE IF MatchAt(s, old, i) THEN new \o ReplaceFrom(s, old, new, i + Len(old))
    ELSE <<s[i]>> \o ReplaceFrom(s, old, new, i + 1)

Replace(s, old, new) == [t \in Str |-> ReplaceFrom(t, old, new, 1)][s]

\* s.count(sub): non-overlapping occurrences
RECURSIVE CountFrom(_, _, _)
CountFrom(s, sub, i) ==
    IF i > Len(s) THEN 0
    ELSE IF MatchAt(s, sub, i) THEN 1 + CountFrom(s, sub, i + Len(sub))
    ELSE CountFrom(s, sub, i + 1)

Count(s, sub) == CountFrom(s, sub, 1)

\* re.search(lit + '(.?)', s).group(1): the character after the leftmost
\* occurrence of lit, or '' at the end of the string or before a line break
\* ('.' does not match "\n")
GroupAfter(s, lit) ==
    LET q == Find(s, lit) + Len(lit)
    IN  IF q <= Len(s) /\ s[q] # "\n" THEN <<s[q]>> ELSE <<>>

(***************************************************************************)
(* k2u_mappings: the rule table, in table order                            *)
(***************************************************************************)
\* Special characters and numbers (unicode.py lines 100-110)
k2u_special ==
    <<
       <<<<"u00f1">>, <<"u0970">>>>,
       <<<<"Q", "+", "Z">>, <<"Q", "Z", "+">>>>,
       <<<<"s", "a", "s">>, <<"s", "a">>>>,
       <<<<"a", "a">>, <<"a">>>>,
       <<<<")", "Z">>, <<"u0930", "u094d", "u0926", "u094d", "u0927">>>>,
       <<<<"Z", "Z">>, <<"Z">>>>,
       <<<<"u2018">>, <<"\"">>>>,
       <<<<"u2019">>, <<"\"">>>>,
       <<<<"u201c">>, <<"'">>>>,
       <<<<"u201d">>, <<"'">>>>
    >>

\* Numbers (unicode.py lines 112-122)
k2u_numbers ==
    <<
       <<<<"u00e5">>, <<"u0966">>>>,
       <<<<"u0192">>, <<"u0967">>>>,
       <<<<"u201e">>, <<"u0968">>>>,
       <<<<"u2026">>, <<"u0969">>>>,
       <<<<"u2020">>, <<"u096a">>>>,
       <<<<"u2021">>, <<"u096b">>>>,
       <<<<"u02c6">>, <<"u096c">>>>,
       <<<<"u2030">>, <<"u096d">>>>,
       <<<<"u0160">>, <<"u096e">>>>,
       <<<<"u2039">>, <<"u096f">>>>
    >>

\* Extended characters (unicode.py lines 124-137)
k2u_extended ==
    <<
       <<<<"u00b6", "+">>, <<"u095e", "u094d">>>>,
       <<<<"d", "+">>, <<"u0958">>>>,
       <<<<"[", "+", "k">>, <<"u0959">>>>,
       <<<<"[", "+">>, <<"u0959", "u094d">>>>,
       <<<<"x", "+">>, <<"u095a">>>>,
       <<<<"T", "+">>, <<"u091c", "u093c", "u094d">>>>,
       <<<<"t", "+">>, <<"u095b">>>>,
       <<<<"M", "+">>, <<"u095c">>>>,
       <<<<"<", "+">>, <<"u095d">>>>,
       <<<<"Q", "+">>, <<"u095e">>>>,
       <<<<";", "+">>, <<"u095f">>>>,
       <<<<"j", "+">>, <<"u0931">>>>,
       <<<<"u", "+">>, <<"u0929">>>>
    >>

\* Complex consonants (unicode.py lines 139-159)
k2u_complex ==
    <<
       <<<<"u00d9", "k">>, <<"u0924", "u094d", "u0924">>>>,
       <<<<"u00d9">>, <<"u0924", "u094d", "u0924", "u094d">>>>,
       <<<<"u00e4">>, <<"u0915", "u094d", "u0924">>>>,
       <<<<"u2013">>, <<"u0926", "u0943">>>>,
       <<<<"u2014">>, <<"u0915", "u0943">>>>,
       <<<<"u00e9">>, <<"u0928", "u094d", "u0928">>>>,
       <<<<"u2122">>, <<"u0928", "u094d", "u0928", "u094d">>>>,
       <<<<"=", "k", "k">>, <<"=", "k">>>>,
       <<<<"f", "=", "k">>, <<"f", "=">>>>,
       <<<<"u00e0">>, <<"u0939", "u094d", "u0928">>>>,
       <<<<"u00e1">>, <<"u0939", "u094d", "u092f">>>>,
       <<<<"u00e2">>, <<"u0939", "u0943">>>>,
       <<<<"u00e3">>, <<"u0939", "u094d", "u092e">>>>,
       <<<<"u00ba", "z">>, <<"u0939", "u094d", "u0930">>>>,
       <<<<"u00ba">>, <<"u0939", "u094d">>>>,
       <<<<"u00ed">>, <<"u0926", "u094d", "u0926">>>>,
       <<<<"{", "k">>, <<"u0915", "u094d", "u0937">>>>,
       <<<<"{">>, <<"u0915", "u094d", "u0937", "u094d">>>>,
       <<<<"=">>, <<"u0924", "u094d", "u0930">>>>,
       <<<<"u00ab">>, <<"u0924", "u094d", "u0930", "u094d">>>>
    >>

\* Conjuncts with य (unicode.py lines 161-167)
k2u_ya_conjuncts ==
    <<
       <<<<"N", "u00ee">>, <<"u091b", "u094d", "u092f">>>>,
       <<<<"V", "u00ee">>, <<"u091f", "u094d", "u092f">>>>,
       <<<<"B", "u00ee">>, <<"u0920", "u094d", "u092f">>>>,
       <<<<"M", "u00ee">>, <<"u0921", "u094d", "u092f">>>>,
       <<<<"<", "u00ee">>, <<"u0922", "u094d", "u092f">>>>,
       <<<<"|">>, <<"u0926", "u094d", "u092f">>>>
    >>

\* Special conjuncts (unicode.py lines 169-172)
k2u_special_conjuncts ==
    <<
       <<<<"K">>, <<"u091c", "u094d", "u091e">>>>,
       <<<<"}">>, <<"u0926", "u094d", "u0935">>>>,
       <<<<"J">>, <<"u0936", "u094d", "u0930">>>>
    >>

\* र् conjuncts (unicode.py lines 174-185)
k2u_reph_conjuncts ==
    <<
       <<<<"V", "u00aa">>, <<"u091f", "u094d", "u0930">>>>,
       <<<<"M", "u00aa">>, <<"u0921", "u094d", "u0930">>>>,
       <<<<"<", "u00aa", "u00aa">>, <<"u0922", "u094d", "u0930">>>>,
       <<<<"N", "u00aa">>, <<"u091b", "u094d", "u0930">>>>,
       <<<<"u00d8">>, <<"u0915", "u094d", "u0930">>>>,
       <<<<"u00dd">>, <<"u092b", "u094d", "u0930">>>>,
       <<<<"n", "z", "Z">>, <<"u0930", "u094d", "u0926", "u094d", "u0930">>>>,
       <<<<"u00e6">>, <<"u0926", "u094d", "u0930">>>>,
       <<<<"u00e7">>, <<"u092a", "u094d", "u0930">>>>,
       <<<<"u00c1">>, <<"u092a", "u094d", "u0930">>>>,
       <<<<"x", "z">>, <<"u0917", "u094d", "u0930">>>>
    >>

\* र with vowels (unicode.py lines 187-189)
k2u_ra_vowels ==
    <<
       <<<<"#">>, <<"u0930", "u0941">>>>,
       <<<<":">>, <<"u0930", "u0942">>>>
    >>

\* Independent vowels (unicode.py lines 191-205)
k2u_independent_vowels ==
    <<
       <<<<"v", "u201a">>, <<"u0911">>>>,
       <<<<"v", "k", "s">>, <<"u0913">>>>,
       <<<<"v", "k", "S">>, <<"u0914">>>>,
       <<<<"v", "k">>, <<"u0906">>>>,
       <<<<"v">>, <<"u0905">>>>,
       <<<<"b", "u00b1">>, <<"u0908", "u0902">>>>,
       <<<<"u00c3">>, <<"u0908">>>>,
       <<<<"b", "Z">>, <<"u0908">>>>,
       <<<<"b">>, <<"u0907">>>>,
       <<<<"m">>, <<"u0909">>>>,
       <<<<"u00c5">>, <<"u090a">>>>,
       <<<<",", "s">>, <<"u0910">>>>,
       <<<<",">>, <<"u090f">>>>,
       <<<<"_">>, <<"u090b">>>>
    >>

\* Consonants (unicode.py lines 207-286)
k2u_consonants ==
    <<
       <<<<"u00f4">>, <<"u0915", "u094d", "u0915">>>>,
       <<<<"d">>, <<"u0915">>>>,
       <<<<"D", "k">>, <<"u0915">>>>,
       <<<<"D">>, <<"u0915", "u094d">>>>,
       <<<<"[", "k">>, <<"u0916">>>>,
       <<<<"[">>, <<"u0916", "u094d">>>>,
       <<<<"x">>, <<"u0917">>>>,
       <<<<"X", "k">>, <<"u0917">>>>,
       <<<<"X">>, <<"u0917", "u094d">>>>,
       <<<<"u00c4">>, <<"u0918">>>>,
       <<<<"?", "k">>, <<"u0918">>>>,
       <<<<"?">>, <<"u0918", "u094d">>>>,
       <<<<"u00b3">>, <<"u0919">>>>,
       <<<<"p", "k", "S">>, <<"u091a", "u0948">>>>,
       <<<<"p">>, <<"u091a">>>>,
       <<<<"P", "k">>, <<"u091a">>>>,
       <<<<"P">>, <<"u091a", "u094d">>>>,
       <<<<"N">>, <<"u091b">>>>,
       <<<<"t">>, <<"u091c">>>>,
       <<<<"T", "k">>, <<"u091c">>>>,
       <<<<"T">>, <<"u091c", "u094d">>>>,
       <<<<">">>, <<"u091d">>>>,
       <<<<"u00f7">>, <<"u091d", "u094d">>>>,
       <<<<"u00a5">>, <<"u091e">>>>,
       <<<<"u00ea">>, <<"u091f", "u094d", "u091f">>>>,
       <<<<"u00eb">>, <<"u091f", "u094d", "u0920">>>>,
       <<<<"V">>, <<"u091f">>>>,
       <<<<"B">>, <<"u0920">>>>,
       <<<<"u00ec">>, <<"u0921", "u094d", "u0921">>>>,
       <<<<"u00ef">>, <<"u0921", "u094d", "u0922">>>>,
       <<<<"M">>, <<"u0921">>>>,
       <<<<"<">>, <<"u0922">>>>,
       <<<<".", "k">>, <<"u0923">>>>,
       <<<<".">>, <<"u0923", "u094d">>>>,
       <<<<"r">>, <<"u0924">>>>,
       <<<<"R", "k">>, <<"u0924">>>>,
       <<<<"R">>, <<"u0924", "u094d">>>>,
       <<<<"F", "k">>, <<"u0925">>>>,
       <<<<"F">>, <<"u0925", "u094d">>>>,
       <<<<")">>, <<"u0926", "u094d", "u0927">>>>,
       <<<<"n">>, <<"u0926">>>>,
       <<<<"/", "k">>, <<"u0927">>>>,
       <<<<"/">>, <<"u0927", "u094d">>>>,
       <<<<"u00cb">>, <<"u0927", "u094d">>>>,
       <<<<"u00e8">>, <<"u0927">>>>,
       <<<<"u">>, <<"u0928">>>>,
       <<<<"U", "k">>, <<"u0928">>>>,
       <<<<"U">>, <<"u0928", "u094d">>>>,
       <<<<"i">>, <<"u092a">>>>,
       <<<<"I", "k">>, <<"u092a">>>>,
       <<<<"I">>, <<"u092a", "u094d">>>>,
       <<<<"Q">>, <<"u092b">>>>,
       <<<<"u00b6">>, <<"u092b", "u094d">>>>,
       <<<<"c">>, <<"u092c">>>>,
       <<<<"C", "k">>, <<"u092c">>>>,
       <<<<"C">>, <<"u092c", "u094d">>>>,
       <<<<"H", "k">>, <<"u092d">>>>,
       <<<<"H">>, <<"u092d", "u094d">>>>,
       <<<<"e">>, <<"u092e">>>>,
       <<<<"E", "k">>, <<"u092e">>>>,
       <<<<"E">>, <<"u092e", "u094d">>>>,
       <<<<";">>, <<"u092f">>>>,
       <<<<"u00b8">>, <<"u092f", "u094d">>>>,
       <<<<"j">>, <<"u0930">>>>,
       <<<<"y">>, <<"u0932">>>>,
       <<<<"Y", "k">>, <<"u0932">>>>,
       <<<<"Y">>, <<"u0932", "u094d">>>>,
       <<<<"G">>, <<"u0933">>>>,
       <<<<"o">>, <<"u0935">>>>,
       <<<<"O", "k">>, <<"u0935">>>>,
       <<<<"O">>, <<"u0935", "u094d">>>>,
       <<<<"'", "k">>, <<"u0936">>>>,
       <<<<"'">>, <<"u0936", "u094d">>>>,
       <<<<"\"", "k">>, <<"u0937">>>>,
       <<<<"\"">>, <<"u0937", "u094d">>>>,
       <<<<"l">>, <<"u0938">>>>,
       <<<<"L", "k">>, <<"u0938">>>>,
       <<<<"L">>, <<"u0938", "u094d">>>>,
       <<<<"g">>, <<"u0939">>>>
    >>

\* Vowel signs and modifiers (unicode.py lines 288-318)
k2u_vowel_signs ==
    <<
       <<<<"u00c8">>, <<"u0940", "u0902">>>>,
       <<<<"s", "a", "z">>, <<"u094d", "u0930", "u0947", "u0902">>>>,
       <<<<"z">>, <<"u094d", "u0930">>>>,
       <<<<"u00dc">>, <<"u0936", "u094d">>>>,
       <<<<"u201a">>, <<"u0949">>>>,
       <<<<"k", "a", "s">>, <<"u094b", "u0902">>>>,
       <<<<"k", "s">>, <<"u094b">>>>,
       <<<<"k", "S">>, <<"u094c">>>>,
       <<<<"u00a1", "k">>, <<"u093e", "u0901">>>>,
       <<<<"a", "k">>, <<"k", "u0902">>>>,
       <<<<"k">>, <<"u093e">>>>,
       <<<<"a", "h">>, <<"u0940", "u0902">>>>,
       <<<<"h">>, <<"u0940">>>>,
       <<<<"a", "q">>, <<"u0941", "u0902">>>>,
       <<<<"q">>, <<"u0941">>>>,
       <<<<"a", "w">>, <<"u0942", "u0902">>>>,
       <<<<"u00a1", "w">>, <<"u0942", "u0901">>>>,
       <<<<"w">>, <<"u0942">>>>,
       <<<<"u0060">>, <<"u0943">>>>,
       <<<<"u0300">>, <<"u0943">>>>,
       <<<<"a", "s">>, <<"u0947", "u0902">>>>,
       <<<<"u00b1", "s">>, <<"s", "u00b1">>>>,
       <<<<"s">>, <<"u0947">>>>,
       <<<<"a", "S">>, <<"u0948", "u0902">>>>,
       <<<<"S">>, <<"u0948">>>>,
       <<<<"a", "u00aa">>, <<"u094d", "u0930", "u0902">>>>,
       <<<<"u00aa">>, <<"u094d", "u0930">>>>,
       <<<<"f", "a">>, <<"u0902", "f">>>>,
       <<<<"a">>, <<"u0902">>>>,
       <<<<"u00a1">>, <<"u0901">>>>
    >>

\* Punctuation and symbols (unicode.py lines 320-349)
k2u_punctuation ==
    <<
       <<<<"%">>, <<":">>>>,
       <<<<"W">>, <<"u0945">>>>,
       <<<<"u2022">>, <<"u093d">>>>,
       <<<<"u00b7">>, <<"u093d">>>>,
       <<<<"u2219">>, <<"u093d">>>>,
       <<<<"~", "j">>, <<"u094d", "u0930">>>>,
       <<<<"~">>, <<"u094d">>>>,
       <<<<"\\">>, <<"?">>>>,
       <<<<"+">>, <<"u093c">>>>,
       <<<<"^">>, <<"u2018">>>>,
       <<<<"*">>, <<"u2019">>>>,
       <<<<"u00de">>, <<"u201c">>>>,
       <<<<"u00df">>, <<"u201d">>>>,
       <<<<"(">>, <<";">>>>,
       <<<<"u00bc">>, <<"(">>>>,
       <<<<"u00bd">>, <<")">>>>,
       <<<<"u00bf">>, <<"{">>>>,
       <<<<"u00c0">>, <<"}">>>>,
       <<<<"u00be">>, <<"=">>>>,
       <<<<"A">>, <<"u0964">>>>,
       <<<<"-">>, <<".">>>>,
       <<<<"&">>, <<"-">>>>,
       <<<<"&">>, <<"u00b5">>>>,
       <<<<"u03bc">>, <<"-">>>>,
       <<<<"u0152">>, <<"u0970">>>>,
       <<<<"]">>, <<",">>>>,
       <<<<"~", " ">>, <<"u094d", " ">>>>,
       <<<<"@">>, <<"/">>>>,
       <<<<"u00ae">>, <<"u0948", "u0902">>>>
    >>
\* the table with the vowel-sign rules moved in front of the independent
\* vowels and consonants (the single-character rule 'k' then fires before
\* 'vk', 'Hk', ...)
k2u_mappings_vowel_signs_first ==
    k2u_special \o k2u_numbers \o k2u_extended \o k2u_complex \o
    k2u_ya_conjuncts \o k2u_special_conjuncts \o k2u_reph_conjuncts \o
    k2u_ra_vowels \o k2u_vowel_signs \o k2u_independent_vowels \o
    k2u_consonants \o k2u_punctuation

\* the two rules for '&' in the other order
k2u_mappings_amp_swapped ==
    LET a == CHOOSE i \in 1..(Len(k2u_punctuation) - 1) :
                 k2u_punctuation[i][1] = <<"&">> /\ k2u_punctuation[i + 1][1] = <<"&">>
    IN  k2u_special \o k2u_numbers \o k2u_extended \o k2u_complex \o
        k2u_ya_conjuncts \o k2u_special_conjuncts \o k2u_reph_conjuncts \o
        k2u_ra_vowels \o k2u_independent_vowels \o k2u_consonants \o
        k2u_vowel_signs \o
        [i \in 1..Len(k2u_punctuation) |->
            IF i = a THEN k2u_punctuation[a + 1]
            ELSE IF i = a + 1 THEN k2u_punctuation[a]
            ELSE k2u_punctuation[i]]

k2u_mappings ==
    k2u_special \o k2u_numbers \o k2u_extended \o k2u_complex \o
    k2u_ya_conjuncts \o k2u_special_conjuncts \o k2u_reph_conjuncts \o
    k2u_ra_vowels \o k2u_independent_vowels \o k2u_consonants \o
    k2u_vowel_signs \o k2u_punctuation

\* the Combining-Mark Set
unicode_unattached_vowel_signs ==
    <<"u093e", "u093f", "u0940", "u0941", "u0942", "u0943",
      "u0947", "u0948", "u094b", "u094c", "u0902", "u0903",
      "u0901", "u0945">>

Range(f) == {f[i] : i \in DOMAIN f}

(***************************************************************************)
(* Glyph Normalizer                                                        *)
(***************************************************************************)
\* Pre-processing fixes
PreProcess(s) ==
    Replace(Replace(Replace(s, <<" ", "u00aa">>, <<"u00aa">>),
                    <<" ", "~", "j">>, <<"~", "j">>),
            <<" ", "z">>, <<"z">>)

krutidev_consonants ==
    {<<"d">>, <<"[", "k">>, <<"x">>, <<"?", "k">>, <<"u00b3">>, <<"p">>,
     <<"N">>, <<"t">>, <<">">>, <<"u00a5">>, <<"V">>, <<"B">>, <<"M">>,
     <<"<">>, <<".", "k">>, <<"r">>, <<"F", "k">>, <<"n">>, <<"/", "k">>,
     <<"u">>, <<"i">>, <<"Q">>, <<"c">>, <<"H", "k">>, <<"e">>, <<";">>,
     <<"j">>, <<"y">>, <<"G">>, <<"o">>, <<"'", "k">>, <<"\"", "k">>,
     <<"l">>, <<"g">>}

krutidev_unattached_vowel_signs ==
    {<<"k">>, <<"f">>, <<"h">>, <<"q">>, <<"w">>, <<"u0060">>, <<"s">>, <<"S">>,
     <<"k", "s">>, <<"k", "S">>, <<"a">>, <<"%">>, <<"u00a1">>, <<"W">>}

\* the characters matched by re.compile('[—–]')
Dashes == {"u2014", "u2013"}

\* the lookahead without its bounds test
DashGuard_unguarded(s, i) == TRUE

\* index < len(kru_text) - 1, for the 1-based position i = index + 1
DashGuard(s, i) == i < Len(s)

\* the finditer loop: orig is the string the iterator was created on, s the
\* current kru_text; exc is "IndexError" if kru_text[m.start() + 1] is
\* evaluated outside the string
RECURSIVE DashFix(_, _, _)
DashFix(s, orig, i) ==
    IF i > Len(orig) THEN [buf |-> s, exc |-> "none"]
    ELSE IF orig[i] \notin Dashes THEN DashFix(s, orig, i + 1)
    ELSE IF ~DashGuard(s, i) THEN DashFix(s, orig, i + 1)
    ELSE IF i + 1 > Len(s) THEN [buf |-> s, exc |-> "IndexError"]
    ELSE IF <<s[i + 1]>> \notin
                (krutidev_consonants \cup krutidev_unattached_vowel_signs)
         THEN DashFix([s EXCEPT ![i] = "&"], orig, i + 1)
    ELSE DashFix(s, orig, i + 1)

NormalizeStage(s) == [t \in Str |-> DashFix(t, t, 1)][PreProcess(s)]

(***************************************************************************)
(* Sequential Substitution Engine                                          *)
(***************************************************************************)
\* the rules applied from the last to the first
ApplyMappings_last_first(s, rules) ==
    LET Sub[lo \in Nat, hi \in Nat, t \in Str] ==
            IF lo > hi THEN t
            ELSE IF lo = hi THEN Replace(t, rules[lo][1], rules[lo][2])
            ELSE Sub[lo, (lo + hi) \div 2, Sub[((lo + hi) \div 2) + 1, hi, t]]
    IN  Sub[1, Len(rules), s]

\* for old, new in k2u_mappings: kru_text = kru_text.replace(old, new)
\* Sub[lo, hi, t] is t after rules lo..hi, applied in table order: the range
\* is split in two halves, the second applied to the result of the first
ApplyMappings(s, rules) ==
    LET Sub[lo \in Nat, hi \in Nat, t \in Str] ==
            IF lo > hi THEN t
            ELSE IF lo = hi THEN Replace(t, rules[lo][1], rules[lo][2])
            ELSE Sub[((lo + hi) \div 2) + 1, hi, Sub[lo, (lo + hi) \div 2, t]]
    IN  Sub[1, Len(rules), s]

\* Special post-processing fixes
PostMappings(s) ==
    Replace(Replace(s, <<"u00b1">>, <<"Z", "u0902">>),
            <<"u00c6">>, <<"u0930", "u094d", "f">>)

SubstituteStage(s) == PostMappings(ApplyMappings(s, k2u_mappings))

(***************************************************************************)
(* Pre-posed Vowel-Sign Resolver                                           *)
(***************************************************************************)
\* the character after the marker lost in the rewrite
FIter_drop_char(s) ==
    LET char == GroupAfter(s, <<"f">>)
    IN  Replace(s, <<"f">> \o char, <<"u093f">>)

\* a marker without a character after it removed instead of converted
FIter_drop_last(s) ==
    LET char == GroupAfter(s, <<"f">>)
    IN  IF char = <<>> THEN Replace(s, <<"f">>, <<>>)
        ELSE Replace(s, <<"f">> \o char, char \o <<"u093f">>)

\* the marker turned into the vowel sign without being moved
FIter_in_place(s) ==
    LET char == GroupAfter(s, <<"f">>)
    IN  Replace(s, <<"f">> \o char, <<"u093f">> \o char)

\* one iteration of the loop "Fix f + ? -> ? + i"
FIter(s) ==
    LET char == GroupAfter(s, <<"f">>)
    IN  Replace(s, <<"f">> \o char, char \o <<"u093f">>)

RECURSIVE FLoop(_)
FLoop(s) ==
    [t \in Str |-> IF Contains(t, <<"f">>) THEN FLoop(FIter(t)) ELSE t][s]

\* the three replacements between the 'f' loop and the 'fa' loop
PostF(s) ==
    Replace(Replace(Replace(s, <<"u00c7">>, <<"f", "a">>),
                    <<"u00af">>, <<"f", "a">>),
            <<"u00c9">>, <<"u0930", "u094d", "f", "a">>)

\* the body of the 'f' loop pasted into the 'fa' loop
FaIter_f_body(s) ==
    LET char == GroupAfter(s, <<"f", "a">>)
    IN  Replace(s, <<"f">> \o char, char \o <<"u093f">>)

\* one iteration of the loop "Fix fa? -> ? + i + anusvara"
FaIter(s) ==
    LET char == GroupAfter(s, <<"f", "a">>)
    IN  Replace(s, <<"f", "a">> \o char, char \o <<"u093f", "u0902">>)

RECURSIVE FaLoop(_)
FaLoop(s) ==
    [t \in Str |-> IF Contains(t, <<"f", "a">>) THEN FaLoop(FaIter(t)) ELSE t][s]

PostFa(s) == Replace(s, <<"u00ca">>, <<"u0940", "Z">>)

\* one iteration of the loop "Fix i + virama + ? -> virama + ? + i"
IhIter(s) ==
    LET char == GroupAfter(s, <<"u093f", "u094d">>)
    IN  Replace(s, <<"u093f", "u094d">> \o char,
                <<"u094d">> \o char \o <<"u093f">>)

RECURSIVE IhLoop(_)
IhLoop(s) ==
    [t \in Str |-> IF Contains(t, <<"u093f", "u094d">>)
                   THEN IhLoop(IhIter(t)) ELSE t][s]

PostIh(s) == Replace(s, <<"u094d", "Z">>, <<"Z">>)

(***************************************************************************)
(* Reph Resolver                                                           *)
(***************************************************************************)
\* the backward scan stepping over the combining marks only
RephSkip_marks_only == Range(unicode_unattached_vowel_signs)

\* the characters the backward scan steps over
RephSkip ==
    {"u0905", "u0906", "u0907", "u0908", "u0909", "u090a", "u090f", "u0910",
     "u0913", "u0914", "u093e", "u093f", "u0940", "u0941", "u0942", "u0943",
     "u0947", "u0948", "u094b", "u094c", "u0902", "u0903", "u0901", "u0945"}

\* the match of re.search('(.)Z', s): a marker needs a character before it
ZMatchPos_needs_char(s) ==
    LET M(p) == p < Len(s) /\ s[p] # "\n" /\ s[p + 1] = "Z"
    IN  IF \E p \in 1..Len(s) : M(p)
        THEN CHOOSE p \in 1..Len(s) : M(p) /\ \A r \in 1..(p - 1) : ~M(r)
        ELSE 0

\* position of the leftmost match of re.search('(.?)Z', s); 0 if none
ZMatchPos(s) ==
    LET M(p) == \/ p < Len(s) /\ s[p] # "\n" /\ s[p + 1] = "Z"
                \/ s[p] = "Z"
    IN  IF \E p \in 1..Len(s) : M(p)
        THEN CHOOSE p \in 1..Len(s) : M(p) /\ \A r \in 1..(p - 1) : ~M(r)
        ELSE 0

\* misplaced.group(1)
ZGroup(s) ==
    LET p == ZMatchPos(s)
    IN  IF p < Len(s) /\ s[p] # "\n" /\ s[p + 1] = "Z" THEN <<s[p]>> ELSE <<>>

\* the inner while loop; idx is the 0-based index_r_halant
RECURSIVE ScanBack(_, _, _)
ScanBack(s, idx, char) ==
    IF idx >= 0 /\ s[idx + 1] \in RephSkip
    THEN IF idx - 1 >= 0
         THEN ScanBack(s, idx - 1, <<s[idx]>> \o char)
         ELSE char
    ELSE char

\* a reph whose backward scan runs off the start of the string is dropped
ZIter_drop(s) ==
    LET char0 == ZGroup(s)
    IN  IF Contains(s, char0 \o <<"Z">>)
        THEN LET char == ScanBack(s, Find(s, char0 \o <<"Z">>) - 1, char0)
             IN  IF char = <<>> \/ char[1] \in RephSkip
                 THEN Replace(s, char \o <<"Z">>, char)
                 ELSE Replace(s, char \o <<"Z">>, <<"u0930", "u094d">> \o char)
        ELSE s

\* one iteration of the loop "Fix ra + virama placement"
ZIter(s) ==
    LET char0 == ZGroup(s)
    IN  IF Contains(s, char0 \o <<"Z">>)
        THEN LET char == ScanBack(s, Find(s, char0 \o <<"Z">>) - 1, char0)
             IN  Replace(s, char \o <<"Z">>, <<"u0930", "u094d">> \o char)
        ELSE s

RECURSIVE ZLoop(_)
ZLoop(s) ==
    [t \in Str |-> IF Contains(t, <<"Z">>) THEN ZLoop(ZIter(t)) ELSE t][s]

(***************************************************************************)
(* Combining-Mark Cleanup                                                  *)
(***************************************************************************)
\* the three replacements of the loop body, for one matra
CleanMatra(s, matra) ==
    Replace(Replace(Replace(s, <<" ", matra>>, <<matra>>),
                    <<",", matra>>, <<matra, ",">>),
            <<"u094d", matra>>, <<matra>>)

\* Clean up illegal characters before matras
RECURSIVE CleanMatras(_, _)
CleanMatras(s, i) ==
    IF i > Len(unicode_unattached_vowel_signs) THEN s
    ELSE [t \in Str |-> CleanMatras(t, i + 1)]
            [CleanMatra(s, unicode_unattached_vowel_signs[i])]

\* Final cleanup
FinalCleanup(s) ==
    Replace(Replace(Replace(Replace(s,
                <<"u094d", "u094d", "u0930">>, <<"u094d", "u0930">>),
            <<"u094d", "u0930", "u094d">>, <<"u0930", "u094d">>),
        <<"u094d", "u094d">>, <<"u094d">>),
    <<"u094d", " ">>, <<" ">>)

CleanupStage(s) == FinalCleanup(CleanMatras(s, 1))

\* a blank instead of the empty string
EmptyReturn_blank == <<" ">>

\* value returned for a falsy argument
EmptyReturn == <<>>

(***************************************************************************)
(* Calls in progress at the same time                                      *)
(***************************************************************************)
\* the callers that may be inside krutidev_to_unicode at once
Callers == {1, 2}

\* the arguments the concurrent callers pass
ConcInputs ==
    {<<>>, Str_fd, Str_Hkkjr, Str_dvZ, Str_spaces_matra, Str_dash_space,
     Str_dash_consonant, <<"u00c7", "d">>}

\* one buffer shared by every call
BufferOf_shared(c) == 1

\* kru_text is a local of the call: each call has its own frame
BufferOf(c) == c

(***************************************************************************)
(* The mapping-keyed converter of src/server/parser/hinglish.py            *)
(***************************************************************************)
\* longest text handed to the converter
MaxTextLen == 2

TextAlphabet == {"k", "x", "K", "1", "!"}

Texts == UNION {[1..n -> TextAlphabet] : n \in 0..MaxTextLen}

\* the key: value entries of the dict display, as written, top to bottom
mapping_display ==
    <<
        <<"k", <<"u0915">>>>,
        <<"x", <<"u0916">>>>,
        <<"x", <<"u0917">>>>,
        <<"l", <<"u0918">>>>,
        <<"p", <<"u0919">>>>,
        <<"p", <<"u091a">>>>,
        <<"N", <<"u091b">>>>,
        <<"t", <<"u091c">>>>,
        <<"T", <<"u091d">>>>,
        <<"\\", <<"u091e">>>>,
        <<"V", <<"u091f">>>>,
        <<"B", <<"u0920">>>>,
        <<"M", <<"u0921">>>>,
        <<"<", <<"u0922">>>>,
        <<".", <<"u0923">>>>,
        <<"r", <<"u0924">>>>,
        <<"F", <<"u0925">>>>,
        <<"n", <<"u0926">>>>,
        <<"o", <<"u0927">>>>,
        <<"u", <<"u0928">>>>,
        <<"i", <<"u092a">>>>,
        <<"Q", <<"u092b">>>>,
        <<"c", <<"u092c">>>>,
        <<"H", <<"u092d">>>>,
        <<"e", <<"u092e">>>>,
        <<";", <<"u092f">>>>,
        <<"j", <<"u0930">>>>,
        <<"y", <<"u0932">>>>,
        <<"Y", <<"u0935">>>>,
        <<"k", <<"u0936">>>>,
        <<"l", <<"u0937">>>>,
        <<"l", <<"u0938">>>>,
        <<"g", <<"u0939">>>>,
        <<"K", <<"u0915", "u094d", "u0937">>>>,
        <<"G", <<"u0924", "u094d", "u0930">>>>,
        <<"K", <<"u091c", "u094d", "u091e">>>>,
        <<"v", <<"u0905">>>>,
        <<"b", <<"u0906">>>>,
        <<"f", <<"u0907">>>>,
        <<"h", <<"u0908">>>>,
        <<"o", <<"u0909">>>>,
        <<"p", <<"u090a">>>>,
        <<"I", <<"u090f">>>>,
        <<"J", <<"u0910">>>>,
        <<"h", <<"u0913">>>>,
        <<"k", <<"u0914">>>>,
        <<"q", <<"u0902">>>>,
        <<"W", <<"u0903">>>>,
        <<"1", <<"u0967">>>>,
        <<"2", <<"u0968">>>>,
        <<"3", <<"u0969">>>>,
        <<"4", <<"u096a">>>>,
        <<"5", <<"u096b">>>>,
        <<"6", <<"u096c">>>>,
        <<"7", <<"u096d">>>>,
        <<"8", <<"u096e">>>>,
        <<"9", <<"u096f">>>>,
        <<"0", <<"u0966">>>>
    >>

\* d[key] = value where an earlier entry with the key keeps its value
DictSet_keep_first(d, key, value) ==
    IF \E i \in 1..Len(d) : d[i][1] = key
    THEN d
    ELSE Append(d, <<key, value>>)

\* d[key] = value: a new key goes to the end of the dict, a key already
\* there keeps its place and takes the new value
DictSet(d, key, value) ==
    IF \E i \in 1..Len(d) : d[i][1] = key
    THEN [i \in 1..Len(d) |-> IF d[i][1] = key THEN <<key, value>> ELSE d[i]]
    ELSE Append(d, <<key, value>>)

\* a dict, as the sequence of (key, value) pairs its items() yields
Dict == Seq(STRING \X Str)

\* a dict display evaluates its entries in the order written, each entry
\* an assignment d[key] = value to the dict built so far
DictDisplay(entries) ==
    LET Build[lo \in Nat, hi \in Nat, d \in Dict] ==
            IF lo > hi THEN d
            ELSE IF lo = hi THEN DictSet(d, entries[lo][1], entries[lo][2])
            ELSE Build[((lo + hi) \div 2) + 1, hi, Build[lo, (lo + hi) \div 2, d]]
    IN  Build[1, Len(entries), <<>>]

\* self.krutidev_to_unicode, as the sequence its items() yields
self_krutidev_to_unicode == DictDisplay(mapping_display)

(***************************************************************************)
(* The Groq client with model fallback, src/server/parser/groq_client.py   *)
(***************************************************************************)
\* largest max_retries argument
MaxRetries == 3

\* self.models, by name
models ==
    <<"llama-3.1-8b-instant",
      "llama-3.3-70b-versatile",
      "deepseek-r1-distill-llama-70b",
      "meta-llama/llama-4-maverick-17b-128e-instruct">>

\* what self.client.chat.completions.create does: it returns a response, or
\* raises an error whose text holds "quota", "rate" or "limit", or else
\* "context" or "token", or none of these
ApiOutcomes == {"ok", "quota", "context", "other"}

\* the next index without the wrap-around
switch_to_next_model_no_wrap(index) == index + 1

\* self.current_model_index after switch_to_next_model()
switch_to_next_model(index) == (index + 1) % Len(models)

(***************************************************************************)
(* The HTTP endpoints of src/server/server.py                              *)
(***************************************************************************)
\* no response sent yet
NoResponse == [status |-> 0, success |-> "", detail |-> "", query |-> <<>>, sessionId |-> ""]

\* no request body
NoRequest == [query |-> [kind |-> "absent", value |-> <<>>], sessionId |-> "absent"]

\* a local variable that has not been assigned
Unbound == [bound |-> FALSE, value |-> <<>>]

\* a local variable holding v
Bound(v) == [bound |-> TRUE, value |-> v]

\* the request bodies: "query" is absent, null or a string, "sessionId" is
\* absent or a string
Requests ==
    [query : {[kind |-> "absent", value |-> <<>>],
              [kind |-> "null", value |-> <<>>],
              [kind |-> "str", value |-> <<>>],
              [kind |-> "str", value |-> <<" ", " ">>],
              [kind |-> "str", value |-> <<"h", "i", " ">>]},
     sessionId : {"absent", "s1"}]

\* str.strip(): leading and trailing blanks removed
Strip(s) ==
    LET blanks == {" ", "\n"}
        keep == {i \in 1..Len(s) : s[i] \notin blanks}
    IN  IF keep = {} THEN <<>>
        ELSE LET lo == CHOOSE i \in keep : \A j \in keep : i <= j
                 hi == CHOOSE i \in keep : \A j \in keep : j <= i
             IN  SubSeq(s, lo, hi)

\* request.get("query", "")
GetQuery(req) ==
    IF req.query.kind = "absent" THEN [kind |-> "str", value |-> <<>>] ELSE req.query

\* request.get("sessionId")
GetSessionId(req) == IF req.sessionId = "absent" THEN "None" ELSE req.sessionId

\* an exception object
Exc(type, status, detail) == [type |-> type, status |-> status, detail |-> detail]

\* the classes that derive from Exception without being HTTPException
PlainExceptions == {"Exception", "JSONDecodeError", "AttributeError", "ImportError", "UnboundLocalError"}

\* isinstance(e, Exception): HTTPException derives from Exception
IsException(e) == e.type \in PlainExceptions \cup {"HTTPException"}

\* what FastAPI sends for an exception that leaves a handler: the status and
\* detail of an HTTPException, the reply of global_exception_handler for
\* any other exception
ErrorResponse(e) ==
    IF e.type = "HTTPException"
    THEN [status |-> e.status, success |-> "", detail |-> e.detail, query |-> <<>>, sessionId |-> ""]
    ELSE [status |-> 500, success |-> "False", detail |-> "Internal server error", query |-> <<>>, sessionId |-> ""]

(***************************************************************************)
(* The call as a state machine: pc is the position in krutidev_to_unicode  *)
(***************************************************************************)
Init ==
    /\ pc = "idle"
    /\ input = <<>>
    /\ kru_text = <<>>
    /\ result = <<>>
    /\ calls = [c \in Callers |-> [pc |-> "idle", input |-> <<>>, result |-> <<>>]]
    /\ frames = [c \in Callers |-> <<>>]
    /\ t_pc = "idle"
    /\ text = <<>>
    /\ unicode_text = <<>>
    /\ item = 0
    /\ client = "unconstructed"
    /\ current_model_index = 0
    /\ g_pc = "idle"
    /\ attempt = 0
    /\ max_retries = 0
    /\ log = <<>>
    /\ outcome = "none"
    /\ p_pc = "idle"
    /\ temp_file = "none"
    /\ p_raised = <<>>
    /\ p_response = NoResponse
    /\ q_pc = "idle"
    /\ request = NoRequest
    /\ query = Unbound
    /\ session_id = Unbound
    /\ q_raised = <<>>
    /\ q_response = NoResponse

\* a caller invokes krutidev_to_unicode(s); get_unicode(s) is s for a str
Call(s) ==
    /\ pc = "idle"
    /\ pc' = "entry"
    /\ input' = s
    /\ kru_text' = s
    /\ result' = <<>>
    /\ UNCHANGED not_vars

\* if not kru_text: return ""
ReturnEmpty ==
    /\ pc = "entry"
    /\ kru_text = <<>>
    /\ pc' = "done"
    /\ result' = EmptyReturn
    /\ UNCHANGED <<input, kru_text>>
    /\ UNCHANGED not_vars

\* pre-processing fixes and the dash loop
Normalize ==
    /\ pc = "entry"
    /\ kru_text # <<>>
    /\ LET r == NormalizeStage(kru_text)
       IN  IF r.exc = "none"
           THEN pc' = "mappings" /\ kru_text' = r.buf
           ELSE pc' = "raised" /\ kru_text' = kru_text
    /\ UNCHANGED <<input, result>>
    /\ UNCHANGED not_vars

\* the mapping loop and the two special post-processing fixes
Substitute ==
    /\ pc = "mappings"
    /\ kru_text' = SubstituteStage(kru_text)
    /\ pc' = "f_loop"
    /\ UNCHANGED <<input, result>>
    /\ UNCHANGED not_vars

FLoopIter ==
    /\ pc = "f_loop"
    /\ Contains(kru_text, <<"f">>)
    /\ kru_text' = FIter(kru_text)
    /\ UNCHANGED <<pc, input, result>>
    /\ UNCHANGED not_vars

FLoopExit ==
    /\ pc = "f_loop"
    /\ ~Contains(kru_text, <<"f">>)
    /\ kru_text' = PostF(kru_text)
    /\ pc' = "fa_loop"
    /\ UNCHANGED <<input, result>>
    /\ UNCHANGED not_vars

FaLoopIter ==
    /\ pc = "fa_loop"
    /\ Contains(kru_text, <<"f", "a">>)
    /\ kru_text' = FaIter(kru_text)
    /\ UNCHANGED <<pc, input, result>>
    /\ UNCHANGED not_vars

FaLoopExit ==
    /\ pc = "fa_loop"
    /\ ~Contains(kru_text, <<"f", "a">>)
    /\ kru_text' = PostFa(kru_text)
    /\ pc' = "ih_loop"
    /\ UNCHANGED <<input, result>>
    /\ UNCHANGED not_vars

IhLoopIter ==
    /\ pc = "ih_loop"
    /\ Contains(kru_text, <<"u093f", "u094d">>)
    /\ kru_text' = IhIter(kru_text)
    /\ UNCHANGED <<pc, input, result>>
    /\ UNCHANGED not_vars

IhLoopExit ==
    /\ pc = "ih_loop"
    /\ ~Contains(kru_text, <<"u093f", "u094d">>)
    /\ kru_text' = PostIh(kru_text)
    /\ pc' = "z_loop"
    /\ UNCHANGED <<input, result>>
    /\ UNCHANGED not_vars

\* while misplaced: misplaced is the match of re.search('(.?)Z', kru_text)
ZLoopIter ==
    /\ pc = "z_loop"
    /\ ZMatchPos(kru_text) # 0
    /\ kru_text' = ZIter(kru_text)
    /\ UNCHANGED <<pc, input, result>>
    /\ UNCHANGED not_vars

ZLoopExit ==
    /\ pc = "z_loop"
    /\ ZMatchPos(kru_text) = 0
    /\ pc' = "cleanup"
    /\ UNCHANGED <<input, kru_text, result>>
    /\ UNCHANGED not_vars

\* the cleanup replacements and return kru_text
Cleanup ==
    /\ pc = "cleanup"
    /\ result' = CleanupStage(kru_text)
    /\ kru_text' = <<>>
    /\ pc' = "done"
    /\ UNCHANGED input
    /\ UNCHANGED not_vars

\* the caller takes the returned string (or the exception)
Return ==
    /\ pc \in {"done", "raised"}
    /\ pc' = "idle"
    /\ input' = <<>>
    /\ kru_text' = <<>>
    /\ result' = <<>>
    /\ UNCHANGED not_vars

Step ==
    \/ ReturnEmpty
    \/ Normalize
    \/ Substitute
    \/ FLoopIter
    \/ FLoopExit
    \/ FaLoopIter
    \/ FaLoopExit
    \/ IhLoopIter
    \/ IhLoopExit
    \/ ZLoopIter
    \/ ZLoopExit
    \/ Cleanup

Next ==
    \/ \E s \in Inputs : Call(s)
    \/ Step
    \/ Return

Spec == Init /\ [][Next]_vars

\* a call that has started runs to its end
FairSpec == Spec /\ WF_vars(Step)

\* the whole call as a function, for a non-raising normalizer
krutidev_to_unicode(s) ==
    [t \in Str |->
        IF t = <<>> THEN EmptyReturn
        ELSE CleanupStage(ZLoop(PostIh(IhLoop(PostFa(FaLoop(PostF(FLoop(
                SubstituteStage(NormalizeStage(t).buf)))))))))][s]

(***************************************************************************)
(* Stage entry buffers as functions of the argument                        *)
(***************************************************************************)
\* the buffer on entry to the 'f' loop
FEntry(s) == SubstituteStage(NormalizeStage(s).buf)

\* the buffer on entry to the reph loop
ZEntry(s) == PostIh(IhLoop(PostFa(FaLoop(PostF(FLoop(FEntry(s)))))))

CombiningMarks == Range(unicode_unattached_vowel_signs)

(***************************************************************************)
(* Literal scenarios                                                       *)
(***************************************************************************)
\* C1: transcode("Hkkjr") returns exactly U+092D U+093E U+0930 U+0924: 'Hk'
\* is consumed as one consonant before the rules for 'k', 'j' and 'r' apply.
C1_Hkkjr ==
    (pc = "done" /\ input = Str_Hkkjr)
        => result = <<"u092d", "u093e", "u0930", "u0924">>

C1_Witness == pc = "done" /\ input = Str_Hkkjr /\ Len(result) = 4

\* C2: transcode("fd") returns exactly U+0915 U+093F: the consonant is
\* substituted first and the marker 'f' is then moved after it as U+093F.
C2_fd ==
    /\ (pc = "f_loop" /\ input = Str_fd)
          => kru_text \in {<<"f", "u0915">>, <<"u0915", "u093f">>}
    /\ (pc = "done" /\ input = Str_fd) => result = <<"u0915", "u093f">>

C2_Witness == pc = "done" /\ input = Str_fd /\ result[2] = "u093f"

\* C3: transcode("vkt") returns exactly U+0906 U+091C.
C3_vkt == (pc = "done" /\ input = Str_vkt) => result = <<"u0906", "u091c">>

C3_Witness == pc = "done" /\ input = Str_vkt /\ Len(result) = 2

\* C4: transcode of the empty string returns the empty string.
C4_Empty == (pc = "done" /\ input = <<>>) => result = <<>>

C4_Witness == pc = "done" /\ input = <<>>

(***************************************************************************)
(* Totality and termination                                                *)
(***************************************************************************)
\* C5: transcode is total: no stage ever raises, and every call that has
\* started terminates and returns a string.
C5_Total ==
    /\ [](pc # "raised")
    /\ (pc = "entry") ~> (pc = "done")

\* a call whose argument ends in a dash and holds both markers has returned
C5_Witness == pc = "done" /\ input = Str_dash_end

\* C6: the 'f' loop, the 'fa' loop and the reph loop terminate, and in each
\* of them the number of occurrences of the loop's marker ('f', 'fa', 'Z')
\* strictly decreases on every iteration.
C6_LoopsTerminate ==
    /\ [][/\ (pc = "f_loop" /\ pc' = "f_loop")
                => Count(kru_text', <<"f">>) < Count(kru_text, <<"f">>)
          /\ (pc = "fa_loop" /\ pc' = "fa_loop")
                => Count(kru_text', <<"f", "a">>) < Count(kru_text, <<"f", "a">>)
          /\ (pc = "z_loop" /\ pc' = "z_loop")
                => Count(kru_text', <<"Z">>) < Count(kru_text, <<"Z">>)]_vars
    /\ (pc \in {"f_loop", "fa_loop", "z_loop"}) ~> (pc = "cleanup")

\* the 'f' loop after an iteration that resolved one of two markers
C6_Witness ==
    /\ pc = "f_loop"
    /\ Count(input, <<"f">>) = 2
    /\ Count(kru_text, <<"f">>) = 1

(***************************************************************************)
(* Cleanup                                                                 *)
(***************************************************************************)
\* C7: the Combining-Mark Cleanup stage is idempotent: applying it to the
\* buffer it has produced yields that buffer again.
C7_CleanupIdempotent == pc = "done" => CleanupStage(result) = result

(***************************************************************************)
(* Reph Resolver                                                           *)
(***************************************************************************)
\* position of the base of the marker at position i of b: the nearest
\* preceding character that is not a combining mark; 0 if there is none
RECURSIVE BaseOf(_, _)
BaseOf(b, i) ==
    IF i <= 1 THEN 0
    ELSE IF b[i - 1] \in CombiningMarks THEN BaseOf(b, i - 1)
    ELSE i - 1

\* the leftmost marker of b resolved against its own base: the marker is
\* removed and ra + virama put immediately before the base.  A marker
\* without a base is dropped (emit = FALSE) or becomes ra + virama at the
\* start of the buffer (emit = TRUE).
RephStep(b, emit) ==
    LET i == Find(b, <<"Z">>)
        j == BaseOf(b, i)
        rest == SubSeq(b, i + 1, Len(b))
    IN  IF j > 0
        THEN SubSeq(b, 1, j - 1) \o <<"u0930", "u094d">> \o SubSeq(b, j, i - 1)
                \o rest
        ELSE (IF emit THEN <<"u0930", "u094d">> ELSE <<>>)
                \o SubSeq(b, 1, i - 1) \o rest

\* every marker of b resolved, one at a time, leftmost first
RECURSIVE RephAll(_, _)
RephAll(b, emit) ==
    [t \in Str |-> IF Contains(t, <<"Z">>) THEN RephAll(RephStep(t, emit), emit)
                   ELSE t][b]

\* C8: the Reph Resolver removes every marker 'Z' that has a base and puts
\* ra + virama immediately before that marker's own base (the nearest
\* preceding character that is not a combining mark), whatever other markers
\* the buffer holds.
C8_OwnBase ==
    (pc = "z_loop" /\ ~Contains(kru_text, <<"Z">>))
        => \E b \in {ZEntry(input)} :
               kru_text \in {RephAll(b, FALSE), RephAll(b, TRUE)}

\* the leftmost marker of b has no base: the backward scan from it reaches
\* the start of the buffer
NoBase(b) == Contains(b, <<"Z">>) /\ BaseOf(b, Find(b, <<"Z">>)) = 0

\* number of ra + virama emitted by a step, number of markers consumed
Emitted(b, c) == Count(c, <<"u0930">>) - Count(b, <<"u0930">>)

Consumed(b, c) == Count(b, <<"Z">>) - Count(c, <<"Z">>)

RECURSIVE PreposedAll(_)
PreposedAll(b) ==
    LET P == {i \in 1..(Len(b) - 1) : b[i] = "f"}
    IN  IF P = {} THEN {b}
        ELSE UNION {PreposedAll(SubSeq(b, 1, i - 1) \o <<b[i + 1], "u093f">>
                                    \o SubSeq(b, i + 2, Len(b))) : i \in P}

\* a marker left as last character: kept, turned into U+093F, or removed
LastMarker(r) ==
    IF r # <<>> /\ r[Len(r)] = "f"
    THEN {r, SubSeq(r, 1, Len(r) - 1) \o <<"u093f">>, SubSeq(r, 1, Len(r) - 1)}
    ELSE {r}

\* C10: every marker 'f' that is immediately followed by a character c (a
\* line break included) is replaced, with c, by c + U+093F; no marker
\* becomes the vowel sign in front of the character it preceded.
C10_MovedBehind ==
    (pc = "f_loop" /\ ~Contains(kru_text, <<"f">>))
        => \E b \in {FEntry(input)} :
               kru_text \in UNION {LastMarker(r) : r \in PreposedAll(b)}

\* the last character of s is c
EndsWith(s, c) == s # <<>> /\ s[Len(s)] = c

Pattern(i) == k2u_mappings[i][1]

\* p is a strict prefix of q
IsStrictPrefix(p, q) == Len(p) < Len(q) /\ SubSeq(q, 1, Len(p)) = p

\* C12: whenever the pattern of one rule is a strict prefix of the pattern
\* of another, the rule with the longer pattern stands before the rule with
\* the shorter one, in the table the mapping loop is about to apply.
C12_LongerFirst ==
    pc = "mappings"
        => \A i, j \in 1..Len(k2u_mappings) :
               IsStrictPrefix(Pattern(i), Pattern(j)) => j < i

\* C13: no match pattern stands more than once in the table the mapping
\* loop is about to apply.
C13_NoDuplicatePattern ==
    pc = "mappings"
        => \A i, j \in 1..Len(k2u_mappings) : i # j => Pattern(i) # Pattern(j)

(***************************************************************************)
(* Glyph Normalizer                                                        *)
(***************************************************************************)
\* the character at position i of b is immediately followed by a legacy
\* consonant code or a legacy vowel-sign code (of one or two characters)
FollowedByLegacy(b, i) ==
    \E c \in krutidev_consonants \cup krutidev_unattached_vowel_signs :
        MatchAt(b, c, i + 1)

\* C14: the Glyph Normalizer replaces a dash by '&' if and only if the dash
\* is not immediately followed by a legacy consonant or vowel-sign code (a
\* dash that is the last character is replaced); every other character,
\* and a dash followed by such a code, is left unchanged.
C14_DashIff ==
    pc = "mappings"
        => \E b \in {PreProcess(input)} :
              /\ Len(kru_text) = Len(b)
              /\ \A i \in 1..Len(b) :
                    IF b[i] \in Dashes /\ ~FollowedByLegacy(b, i)
                    THEN kru_text[i] = "&"
                    ELSE kru_text[i] = b[i]

\* the reph marker and the conjunct-forming markers of the legacy encoding
SpacedMarkers == {<<"Z">>, <<"u00aa">>, <<"z">>, <<"~", "j">>}

\* C16: after the Glyph Normalizer no reph marker and no conjunct-forming
\* marker in the buffer is immediately preceded by a space.
C16_NoSpaceBeforeMarker ==
    pc = "mappings"
        => \A i \in 2..Len(kru_text) :
               kru_text[i - 1] = " "
                   => \A mk \in SpacedMarkers : ~MatchAt(kru_text, mk, i)

(***************************************************************************)
(* Combining-Mark Cleanup                                                  *)
(***************************************************************************)
\* C15: the returned buffer holds no combining mark directly preceded by a
\* space, no combining mark directly preceded by a virama, and no two
\* adjacent viramas.
C15_NoIllegalSequence ==
    pc = "done"
        => \A i \in 2..Len(result) :
              /\ result[i] \in CombiningMarks => result[i - 1] \notin {" ", "u094d"}
              /\ ~(result[i] = "u094d" /\ result[i - 1] = "u094d")

(***************************************************************************)
(* Unknown-glyph passthrough                                               *)
(***************************************************************************)
\* the characters that occur in a match pattern of the table
TableChars == UNION {Range(Pattern(i)) : i \in 1..Len(k2u_mappings)}

\* the markers: 'f', 'Z' and the six codes the fix-up stages rewrite into
\* markers outside the table
Markers == {"f", "Z", "u00b1", "u00c6", "u00c7", "u00af", "u00c9", "u00ca"}

\* c occurs in no pattern and is neither a combining mark nor a marker
Unknown(c) == c \notin TableChars \cup CombiningMarks \cup Markers

\* a is b with zero or more characters left out
RECURSIVE IsSubseq(_, _)
IsSubseq(a, b) ==
    IF a = <<>> THEN TRUE
    ELSE IF b = <<>> THEN FALSE
    ELSE IF a[1] = b[1] THEN IsSubseq(Tail(a), Tail(b))
    ELSE IsSubseq(a, Tail(b))

\* the characters of s, in order, that satisfy Keep
Kept(s, Keep(_)) == SelectSeq(s, Keep)

\* C17 as stated: the characters of the input that occur in no pattern and
\* are neither combining marks nor markers appear in the output, unchanged
\* and in the same order; an input made only of them is returned unchanged.
C17_Passthrough ==
    pc = "done"
        => /\ IsSubseq(Kept(input, Unknown), result)
           /\ (\A i \in 1..Len(input) : Unknown(input[i])) => result = input

\* as Unknown, and not the virama
Plain(c) == Unknown(c) /\ c # "u094d"

\* C17 (amended): the same for the characters that, in addition, are not
\* the virama.
C17_PassthroughButVirama ==
    pc = "done"
        => /\ IsSubseq(Kept(input, Plain), result)
           /\ (\A i \in 1..Len(input) : Plain(input[i])) => result = input

\* a call has returned two characters of no rule that followed a marker
C17_Witness ==
    /\ pc = "done"
    /\ input = Str_plain
    /\ result = <<"!", "u093f", "7">>

(***************************************************************************)
(* Pipeline order                                                          *)
(***************************************************************************)
\* C18: on a call with a non-empty input the stages run once each in the
\* order Normalize, Substitute, Resolve-Pre-posed (the 'f', 'fa' and
\* 'i + virama' loops), Resolve-Reph, Cleanup: every step leaves a stage for
\* itself (a loop iteration) or for the next stage, never for an earlier or
\* a later one, and after Cleanup the call only returns.
C18_FixedOrder ==
    [][/\ (pc = "entry" /\ kru_text # <<>>) => pc' = "mappings"
       /\ pc = "mappings" => pc' = "f_loop"
       /\ pc = "f_loop" => pc' \in {"f_loop", "fa_loop"}
       /\ pc = "fa_loop" => pc' \in {"fa_loop", "ih_loop"}
       /\ pc = "ih_loop" => pc' \in {"ih_loop", "z_loop"}
       /\ pc = "z_loop" => pc' \in {"z_loop", "cleanup"}
       /\ pc = "cleanup" => (pc' = "done" /\ result' = CleanupStage(kru_text))
       /\ pc = "done" => pc' = "idle"]_vars

\* a call whose buffer was rewritten by the 'f', 'fa' and reph loops has returned
C18_Witness == pc = "done" /\ input = <<"f", "Z", "u00c7">>

(***************************************************************************)
(* Sequential Substitution Engine                                          *)
(***************************************************************************)
\* s after rules i, i + 1, ..., last of the table, one after the other
RECURSIVE RulesFromTo(_, _, _)
RulesFromTo(s, i, last) ==
    [t \in Str |-> IF i > last THEN t
                   ELSE RulesFromTo(Replace(t, Pattern(i), k2u_mappings[i][2]),
                                    i + 1, last)][s]

\* s after rules i, i + 1, ... of the table to its end, taken sixteen rules
\* at a time
RECURSIVE InTableOrder(_, _)
InTableOrder(s, i) ==
    [t \in Str |-> IF i > Len(k2u_mappings) THEN t
                   ELSE InTableOrder(
                            RulesFromTo(t, i, IF i + 15 < Len(k2u_mappings)
                                              THEN i + 15
                                              ELSE Len(k2u_mappings)),
                            i + 16)][s]

\* the position of the rule with pattern p
RuleOf(p) == CHOOSE i \in 1..Len(k2u_mappings) : Pattern(i) = p

\* s after the first n rules
AfterRules(s, n) == ApplyMappings(s, SubSeq(k2u_mappings, 1, n))

\* C19: the mapping loop applies every rule once, in table order, rule i
\* on the buffer left by rules 1..i-1; text produced by a rule is matched
\* by later rules and never by earlier ones: "ak" is "k" + anusvara after
\* rule 'ak' and aa-sign + anusvara after the next rule, 'k'; the '?' that
\* rule '\' produces is not consumed by the earlier rule '?k'.
C19_TableOrder ==
    [][pc = "mappings"
          => /\ kru_text' = PostMappings(InTableOrder(kru_text, 1))
             /\ kru_text = Str_ak
                   => /\ Pattern(RuleOf(Str_ak) + 1) = <<"k">>
                      /\ AfterRules(kru_text, RuleOf(Str_ak) - 1) = Str_ak
                      /\ AfterRules(kru_text, RuleOf(Str_ak)) = <<"k", "u0902">>
                      /\ AfterRules(kru_text, RuleOf(Str_ak) + 1) = <<"u093e", "u0902">>
                      /\ kru_text' = <<"u093e", "u0902">>
             /\ kru_text = Str_backslash_k
                   => /\ RuleOf(<<"?", "k">>) < RuleOf(<<"\\">>)
                      /\ kru_text' = <<"?", "u093e">>]_vars

\* the mapping loop has run on "ak"
C19_Witness ==
    /\ pc = "f_loop"
    /\ input = Str_ak
    /\ kru_text = <<"u093e", "u0902">>

(***************************************************************************)
(* Reph Resolver: the characters skipped                                   *)
(***************************************************************************)
\* the independent vowels
IndependentVowels ==
    {"u0905", "u0906", "u0907", "u0908", "u0909", "u090a", "u090f", "u0910",
     "u0913", "u0914"}

C23_NoRephMarker ==
    /\ pc = "cleanup" => ~Contains(kru_text, <<"Z">>)
    /\ pc = "done" => ~Contains(result, <<"Z">>)

\* a call on the two codes whose replacements hold a marker has returned
C23_Witness ==
    /\ pc = "done"
    /\ input = Str_reph_codes
    /\ result = <<"u0930", "u0930", "u094d", "u0915", "u0940", "u0902">>

\* C24: the returned string holds no pre-posed marker 'f': every 'f' of the
\* input or of the replacements for U+00C6, U+00C7, U+00AF and U+00C9 is
\* resolved by the 'f' loop or the 'fa' loop, adjacent markers included.
C24_NoPreposedMarker == pc = "done" => ~Contains(result, <<"f">>)

(***************************************************************************)
(* Rules that never fire                                                   *)
(***************************************************************************)
\* the position of the second rule for '&', and of the rule for '~ '
SecondAmp ==
    CHOOSE i \in 1..Len(k2u_mappings) :
        Pattern(i) = <<"&">> /\ \E j \in 1..(i - 1) : Pattern(j) = <<"&">>

TildeSpace == RuleOf(<<"~", " ">>)

\* rule i leaves the buffer that rules 1..i-1 make of s as it is
NeverFires(s, i) ==
    \E b \in {AfterRules(s, i - 1)} :
        Replace(b, Pattern(i), k2u_mappings[i][2]) = b

ResolvePreposed(s) == PostIh(IhLoop(PostFa(FaLoop(PostF(FLoop(s))))))

\* caller c invokes krutidev_to_unicode(s)
ConcCall(c, s) ==
    /\ calls[c].pc = "idle"
    /\ calls' = [calls EXCEPT ![c] = [pc |-> "entry", input |-> s, result |-> <<>>]]
    /\ frames' = [frames EXCEPT ![BufferOf(c)] = s]
    /\ UNCHANGED not_cvars

\* if not kru_text: return ""
ConcReturnEmpty(c) ==
    /\ calls[c].pc = "entry"
    /\ frames[BufferOf(c)] = <<>>
    /\ calls' = [calls EXCEPT ![c].pc = "done", ![c].result = EmptyReturn]
    /\ UNCHANGED frames
    /\ UNCHANGED not_cvars

\* pre-processing fixes and the dash loop
ConcNormalize(c) ==
    /\ calls[c].pc = "entry"
    /\ frames[BufferOf(c)] # <<>>
    /\ LET r == NormalizeStage(frames[BufferOf(c)])
       IN  IF r.exc = "none"
           THEN /\ calls' = [calls EXCEPT ![c].pc = "mappings"]
                /\ frames' = [frames EXCEPT ![BufferOf(c)] = r.buf]
           ELSE /\ calls' = [calls EXCEPT ![c].pc = "raised"]
                /\ UNCHANGED frames
    /\ UNCHANGED not_cvars

\* the mapping loop and the two special post-processing fixes
ConcSubstitute(c) ==
    /\ calls[c].pc = "mappings"
    /\ calls' = [calls EXCEPT ![c].pc = "preposed"]
    /\ frames' = [frames EXCEPT ![BufferOf(c)] = SubstituteStage(@)]
    /\ UNCHANGED not_cvars

\* the 'f', 'fa' and virama loops
ConcResolvePreposed(c) ==
    /\ calls[c].pc = "preposed"
    /\ calls' = [calls EXCEPT ![c].pc = "reph"]
    /\ frames' = [frames EXCEPT ![BufferOf(c)] = ResolvePreposed(@)]
    /\ UNCHANGED not_cvars

\* the reph loop
ConcResolveReph(c) ==
    /\ calls[c].pc = "reph"
    /\ calls' = [calls EXCEPT ![c].pc = "cleanup"]
    /\ frames' = [frames EXCEPT ![BufferOf(c)] = ZLoop(@)]
    /\ UNCHANGED not_cvars

\* the matra clean-up, the final clean-up and return kru_text
ConcCleanup(c) ==
    /\ calls[c].pc = "cleanup"
    /\ calls' = [calls EXCEPT ![c].pc = "done",
                              ![c].result = CleanupStage(frames[BufferOf(c)])]
    /\ UNCHANGED frames
    /\ UNCHANGED not_cvars

\* the caller takes the returned string (or the exception)
ConcReturn(c) ==
    /\ calls[c].pc \in {"done", "raised"}
    /\ calls' = [calls EXCEPT ![c] = [pc |-> "idle", input |-> <<>>, result |-> <<>>]]
    /\ UNCHANGED frames
    /\ UNCHANGED not_cvars

ConcNext ==
    \E c \in Callers :
        \/ \E s \in ConcInputs : ConcCall(c, s)
        \/ ConcReturnEmpty(c)
        \/ ConcNormalize(c)
        \/ ConcSubstitute(c)
        \/ ConcResolvePreposed(c)
        \/ ConcResolveReph(c)
        \/ ConcCleanup(c)
        \/ ConcReturn(c)

ConcSpec == Init /\ [][ConcNext]_cvars

\* C21: two calls in progress at once do not disturb each other: whatever
\* the interleaving of their stages, a call that returns returns what the
\* function returns for its own argument when it runs alone.
C21_CallsIndependent ==
    \A c \in Callers :
        calls[c].pc = "done" => calls[c].result = krutidev_to_unicode(calls[c].input)

\* a call on "fd" has returned its own result while a call on another
\* argument is in the middle of its stages
C21_Witness ==
    /\ calls[1].pc = "done"
    /\ calls[1].input = Str_fd
    /\ calls[1].result = <<"u0915", "u093f">>
    /\ calls[2].pc = "preposed"
    /\ calls[2].input = Str_dvZ

(***************************************************************************)
(* HindiPDFTranslator.krutidev_to_unicode_convert as a state machine       *)
(***************************************************************************)
\* unicode_text = text
Convert(s) ==
    /\ t_pc = "idle"
    /\ t_pc' = "loop"
    /\ text' = s
    /\ unicode_text' = s
    /\ item' = 1
    /\ UNCHANGED not_tvars

\* one turn of the for loop over self.krutidev_to_unicode.items()
ConvertIter ==
    /\ t_pc = "loop"
    /\ item <= Len(self_krutidev_to_unicode)
    /\ unicode_text' = Replace(unicode_text,
                               <<self_krutidev_to_unicode[item][1]>>,
                               self_krutidev_to_unicode[item][2])
    /\ item' = item + 1
    /\ UNCHANGED <<t_pc, text>>
    /\ UNCHANGED not_tvars

\* the items are exhausted: return unicode_text
ConvertExit ==
    /\ t_pc = "loop"
    /\ item > Len(self_krutidev_to_unicode)
    /\ t_pc' = "done"
    /\ UNCHANGED <<text, unicode_text, item>>
    /\ UNCHANGED not_tvars

\* the caller takes the returned string
ConvertReturn ==
    /\ t_pc = "done"
    /\ t_pc' = "idle"
    /\ text' = <<>>
    /\ unicode_text' = <<>>
    /\ item' = 0
    /\ UNCHANGED not_tvars

ConvertNext ==
    \/ \E s \in Texts : Convert(s)
    \/ ConvertIter
    \/ ConvertExit
    \/ ConvertReturn

ConvertSpec == Init /\ [][ConvertNext]_tvars

\* the entries of the dict display that are written with the key
EntriesOf(key) == {i \in 1..Len(mapping_display) : mapping_display[i][1] = key}

\* the entry written last with the key
LastEntry(key) == CHOOSE i \in EntriesOf(key) : \A j \in EntriesOf(key) : j <= i

\* the entries that are the first with their key, top to bottom
FirstEntries == {i \in 1..Len(mapping_display) : \A j \in EntriesOf(mapping_display[i][1]) : i <= j}

\* the n-th distinct key in the order the keys are first written
NthKey(n) ==
    mapping_display[CHOOSE i \in FirstEntries :
                        Cardinality({j \in FirstEntries : j <= i}) = n][1]

\* every character of s that is a key replaced by the value written last
\* with that key, every other character kept
ByLastEntry(s) ==
    LET Conv[n \in 0..Len(s)] ==
            IF n = 0 THEN <<>>
            ELSE Conv[n - 1] \o (IF EntriesOf(s[n]) = {} THEN <<s[n]>>
                                 ELSE mapping_display[LastEntry(s[n])][2])
    IN  Conv[Len(s)]

\* C26: in the mapping-keyed converter a key written more than once is
\* replaced by the value of its last entry ('k' gives U+0914, never U+0915
\* or U+0936), and the loop applies each distinct key once, in the order
\* the keys are first written.
C26_LastValueFirstOrder ==
    /\ [](t_pc = "done" => unicode_text = ByLastEntry(text))
    /\ [](t_pc = "loop" => item \in 1..(Cardinality(FirstEntries) + 1))
    /\ [][ConvertIter =>
              /\ item' = item + 1
              /\ unicode_text' = Replace(unicode_text, <<NthKey(item)>>,
                                         mapping_display[LastEntry(NthKey(item))][2])]_tvars
    /\ [][ConvertExit => item = Cardinality(FirstEntries) + 1]_tvars

\* "kx" has been converted: 'k' to U+0914 and 'x' to U+0917
C26_Witness ==
    /\ t_pc = "done"
    /\ text = <<"k", "x">>
    /\ unicode_text = <<"u0914", "u0917">>

(***************************************************************************)
(* GroqClient.chat_completion as a state machine.  Indexes are those of    *)
(* Python: models[i + 1] is the model at index i.                          *)
(***************************************************************************)
\* GroqClient(): the API key is in the environment or it is not
Construct(has_key) ==
    /\ client = "unconstructed"
    /\ client' = IF has_key THEN "Groq" ELSE "None"
    /\ current_model_index' = 0
    /\ UNCHANGED <<g_pc, attempt, max_retries, log, outcome>>
    /\ UNCHANGED not_gvars

\* chat_completion(messages, max_retries=mr) up to the for statement
ChatCompletion(mr) ==
    /\ client # "unconstructed"
    /\ g_pc = "idle"
    /\ max_retries' = mr
    /\ attempt' = 0
    /\ log' = <<>>
    /\ IF client = "None"
       THEN g_pc' = "raised" /\ outcome' = "Groq client not initialized"
       ELSE g_pc' = "loop" /\ outcome' = "none"
    /\ UNCHANGED <<client, current_model_index>>
    /\ UNCHANGED not_gvars

\* one turn of for attempt in range(max_retries): the API call with the
\* current model and the handling of what it raised
Attempt(api) ==
    /\ g_pc = "loop"
    /\ attempt < max_retries
    /\ log' = Append(log, <<current_model_index, api>>)
    /\ IF api = "ok"
       THEN /\ g_pc' = "returned"
            /\ outcome' = models[current_model_index + 1]
            /\ UNCHANGED <<attempt, current_model_index>>
       ELSE /\ g_pc' = "loop"
            /\ outcome' = "none"
            /\ attempt' = attempt + 1
            /\ current_model_index' =
                   IF api \in {"quota", "context"}
                   THEN switch_to_next_model(current_model_index)
                   ELSE IF attempt < max_retries - 1
                        THEN current_model_index
                        ELSE switch_to_next_model(current_model_index)
    /\ UNCHANGED <<client, max_retries>>
    /\ UNCHANGED not_gvars

\* the range is exhausted: raise Exception("All models failed after ...")
Exhausted ==
    /\ g_pc = "loop"
    /\ attempt >= max_retries
    /\ g_pc' = "raised"
    /\ outcome' = "All models failed"
    /\ UNCHANGED <<client, current_model_index, attempt, max_retries, log>>
    /\ UNCHANGED not_gvars

\* the caller takes the response or the exception
ChatReturn ==
    /\ g_pc \in {"returned", "raised"}
    /\ g_pc' = "idle"
    /\ attempt' = 0
    /\ max_retries' = 0
    /\ log' = <<>>
    /\ outcome' = "none"
    /\ UNCHANGED <<client, current_model_index>>
    /\ UNCHANGED not_gvars

GroqStep ==
    \/ \E api \in ApiOutcomes : Attempt(api)
    \/ Exhausted

GroqNext ==
    \/ \E has_key \in BOOLEAN : Construct(has_key)
    \/ \E mr \in 0..MaxRetries : ChatCompletion(mr)
    \/ GroqStep
    \/ ChatReturn

GroqSpec == Init /\ [][GroqNext]_gvars

\* the API call answers, and the invocation goes on
GroqFairSpec == GroqSpec /\ WF_gvars(GroqStep)

\* the models the invocation has called so far
Attempted == {log[i][1] : i \in 1..Len(log)}

\* C27: chat_completion returns the response of the first successful API
\* call, and raises 'All models failed' only when every model of the list
\* was attempted and failed during the invocation.
C27_AllModelsTried ==
    /\ g_pc = "returned"
          => /\ log # <<>>
             /\ log[Len(log)][2] = "ok"
             /\ outcome = models[log[Len(log)][1] + 1]
             /\ \A i \in 1..(Len(log) - 1) : log[i][2] # "ok"
    /\ (g_pc = "raised" /\ outcome = "All models failed")
          => Attempted = {i - 1 : i \in 1..Len(models)}

\* C28: an invocation of chat_completion on an initialized client makes at
\* most max_retries API calls and then returns or raises; a failed attempt
\* with a quota/rate/limit or context/token error advances
\* current_model_index by one modulo the number of models, a failed attempt
\* with another error keeps the model unless it was the last attempt; the
\* index stays within 0..len(models)-1 and an invocation starts with the
\* index the one before left.
C28_BoundedFallback ==
    /\ [](Len(log) <= max_retries)
    /\ [](current_model_index \in 0..(Len(models) - 1))
    /\ [][(\E api \in {"quota", "context"} : Attempt(api))
              => current_model_index' = (current_model_index + 1) % Len(models)]_gvars
    /\ [][(Attempt("other") /\ attempt < max_retries - 1)
              => current_model_index' = current_model_index]_gvars
    /\ [][(ChatReturn \/ \E mr \in 0..MaxRetries : ChatCompletion(mr))
              => current_model_index' = current_model_index]_gvars
    /\ (g_pc = "loop") ~> (g_pc \in {"returned", "raised"})

\* an invocation with max_retries = 3 that began at index 3 has made three
\* API calls, a quota error (index wraps to 0), another error (index kept)
\* and another error on the last attempt (index moves on), and has raised
C28_Witness ==
    /\ g_pc = "raised"
    /\ max_retries = 3
    /\ log = <<<<3, "quota">>, <<0, "other">>, <<0, "other">>>>
    /\ current_model_index = 1

(***************************************************************************)
(* process_pdf as a state machine                                          *)
(***************************************************************************)
\* the exception in flight
InFlight(raised) == raised[Len(raised)]

\* a request arrives: the file-type test and the creation of the temp file
ProcessPdf(is_pdf) ==
    /\ p_pc = "idle"
    /\ p_raised' = <<>>
    /\ IF is_pdf
       THEN /\ temp_file' = "exists"
            /\ p_pc' = "write"
            /\ p_response' = NoResponse
       ELSE /\ temp_file' = "none"
            /\ p_pc' = "responded"
            /\ p_response' = ErrorResponse(Exc("HTTPException", 400, "File must be a PDF"))
    /\ UNCHANGED not_pvars

\* content = await file.read(); temp_file.write(content); temp_file.flush()
PdfWrite(ok) ==
    /\ p_pc = "write"
    /\ IF ok
       THEN p_pc' = "extract" /\ UNCHANGED p_raised
       ELSE p_pc' = "except" /\ p_raised' = Append(p_raised, Exc("Exception", 0, "write"))
    /\ UNCHANGED <<temp_file, p_response>>
    /\ UNCHANGED not_pvars

\* extracted_text = extract_text_from_pdf(temp_file.name)
PdfExtract(ok) ==
    /\ p_pc = "extract"
    /\ IF ok
       THEN p_pc' = "summary" /\ UNCHANGED p_raised
       ELSE p_pc' = "except" /\ p_raised' = Append(p_raised, Exc("Exception", 0, "extract"))
    /\ UNCHANGED <<temp_file, p_response>>
    /\ UNCHANGED not_pvars

\* summary_json = get_structured_summary(extracted_text)
PdfSummary(ok) ==
    /\ p_pc = "summary"
    /\ IF ok
       THEN p_pc' = "parse" /\ UNCHANGED p_raised
       ELSE p_pc' = "except" /\ p_raised' = Append(p_raised, Exc("Exception", 0, "summary"))
    /\ UNCHANGED <<temp_file, p_response>>
    /\ UNCHANGED not_pvars

\* the inner try: the fences are stripped and json.loads parses the summary,
\* or raises JSONDecodeError, or another error is raised (summary not a str)
PdfParse(r) ==
    /\ p_pc = "parse"
    /\ IF r = "ok"
       THEN /\ p_pc' = "finally"
            /\ p_response' = [status |-> 200, success |-> "True", detail |-> "",
                               query |-> <<>>, sessionId |-> ""]
            /\ UNCHANGED p_raised
       ELSE /\ p_pc' = IF r = "JSONDecodeError" THEN "json_error" ELSE "except"
            /\ p_raised' = Append(p_raised, Exc(r, 0, "parse"))
            /\ UNCHANGED p_response
    /\ UNCHANGED temp_file
    /\ UNCHANGED not_pvars

\* except json.JSONDecodeError: raise HTTPException(500, "Failed to parse
\* AI response as JSON: ..."), raised inside the outer try
PdfJsonError ==
    /\ p_pc = "json_error"
    /\ p_raised' = Append(p_raised,
                          Exc("HTTPException", 500, "Failed to parse AI response as JSON"))
    /\ p_pc' = "except"
    /\ UNCHANGED <<temp_file, p_response>>
    /\ UNCHANGED not_pvars

\* the outer except Exception clause, if the exception in flight matches it
PdfExcept ==
    /\ p_pc = "except"
    /\ IF IsException(InFlight(p_raised))
       THEN p_raised' = Append(p_raised, Exc("HTTPException", 500, "Failed to process PDF"))
       ELSE UNCHANGED p_raised
    /\ p_pc' = "finally"
    /\ UNCHANGED <<temp_file, p_response>>
    /\ UNCHANGED not_pvars

\* finally: os.unlink(temp_file.name); then the return value or the
\* exception in flight leaves the handler
PdfFinally ==
    /\ p_pc = "finally"
    /\ temp_file' = "unlinked"
    /\ p_pc' = "responded"
    /\ p_response' = IF p_raised = <<>> THEN p_response
                      ELSE ErrorResponse(InFlight(p_raised))
    /\ UNCHANGED p_raised
    /\ UNCHANGED not_pvars

\* the response is sent
PdfDone ==
    /\ p_pc = "responded"
    /\ p_pc' = "idle"
    /\ temp_file' = "none"
    /\ p_raised' = <<>>
    /\ p_response' = NoResponse
    /\ UNCHANGED not_pvars

PdfNext ==
    \/ \E is_pdf \in BOOLEAN : ProcessPdf(is_pdf)
    \/ \E ok \in BOOLEAN : PdfWrite(ok)
    \/ \E ok \in BOOLEAN : PdfExtract(ok)
    \/ \E ok \in BOOLEAN : PdfSummary(ok)
    \/ \E r \in {"ok", "JSONDecodeError", "AttributeError"} : PdfParse(r)
    \/ PdfJsonError
    \/ PdfExcept
    \/ PdfFinally
    \/ PdfDone

(***************************************************************************)
(* chatbot_query as a state machine                                        *)
(***************************************************************************)
\* a request arrives with its body
ChatbotQuery(req) ==
    /\ q_pc = "idle"
    /\ q_pc' = "get_query"
    /\ request' = req
    /\ query' = Unbound
    /\ session_id' = Unbound
    /\ q_raised' = <<>>
    /\ q_response' = NoResponse
    /\ UNCHANGED not_qvars

\* query = request.get("query", "").strip(); None has no strip
QueryStrip ==
    /\ q_pc = "get_query"
    /\ IF GetQuery(request).kind = "str"
       THEN /\ query' = Bound(Strip(GetQuery(request).value))
            /\ q_pc' = "check"
            /\ UNCHANGED q_raised
       ELSE /\ q_raised' = Append(q_raised, Exc("AttributeError", 0, "strip"))
            /\ q_pc' = "except"
            /\ UNCHANGED query
    /\ UNCHANGED <<request, session_id, q_response>>
    /\ UNCHANGED not_qvars

\* if not query: raise HTTPException(400, "Query is required")
QueryCheck ==
    /\ q_pc = "check"
    /\ IF query.value = <<>>
       THEN /\ q_raised' = Append(q_raised, Exc("HTTPException", 400, "Query is required"))
            /\ q_pc' = "except"
       ELSE /\ q_pc' = "import"
            /\ UNCHANGED q_raised
    /\ UNCHANGED <<request, query, session_id, q_response>>
    /\ UNCHANGED not_qvars

\* from chatbot_service import process_improved_chatbot_query
QueryImport(ok) ==
    /\ q_pc = "import"
    /\ IF ok
       THEN q_pc' = "get_session" /\ UNCHANGED q_raised
       ELSE q_pc' = "except" /\ q_raised' = Append(q_raised, Exc("ImportError", 0, "import"))
    /\ UNCHANGED <<request, query, session_id, q_response>>
    /\ UNCHANGED not_qvars

\* session_id = request.get("sessionId")
QuerySession ==
    /\ q_pc = "get_session"
    /\ session_id' = Bound(GetSessionId(request))
    /\ q_pc' = "process"
    /\ UNCHANGED <<request, query, q_raised, q_response>>
    /\ UNCHANGED not_qvars

\* response_data = await process_improved_chatbot_query(query, session_id)
\* and the return of it, or the exception it raised
QueryProcess(ok) ==
    /\ q_pc = "process"
    /\ IF ok
       THEN /\ q_pc' = "responded"
            /\ q_response' = [status |-> 200, success |-> "True", detail |-> "service",
                               query |-> query.value, sessionId |-> session_id.value]
            /\ UNCHANGED q_raised
       ELSE /\ q_pc' = "except"
            /\ q_raised' = Append(q_raised, Exc("Exception", 0, "process"))
            /\ UNCHANGED q_response
    /\ UNCHANGED <<request, query, session_id>>
    /\ UNCHANGED not_qvars

\* except HTTPException: raise.  except Exception: the fallback response is
\* built from query and session_id; reading a local that was never assigned
\* raises UnboundLocalError, which leaves the handler
QueryExcept ==
    /\ q_pc = "except"
    /\ q_pc' = "responded"
    /\ IF InFlight(q_raised).type = "HTTPException"
       THEN /\ q_response' = ErrorResponse(InFlight(q_raised))
            /\ UNCHANGED q_raised
       ELSE IF query.bound /\ session_id.bound
       THEN /\ q_response' = [status |-> 200, success |-> "True", detail |-> "fallback",
                               query |-> query.value, sessionId |-> session_id.value]
            /\ UNCHANGED q_raised
       ELSE /\ q_raised' = Append(q_raised, Exc("UnboundLocalError", 0, "fallback"))
            /\ q_response' = ErrorResponse(Exc("UnboundLocalError", 0, "fallback"))
    /\ UNCHANGED <<request, query, session_id>>
    /\ UNCHANGED not_qvars

\* the response is sent
QueryDone ==
    /\ q_pc = "responded"
    /\ q_pc' = "idle"
    /\ request' = NoRequest
    /\ query' = Unbound
    /\ session_id' = Unbound
    /\ q_raised' = <<>>
    /\ q_response' = NoResponse
    /\ UNCHANGED not_qvars

ChatbotNext ==
    \/ \E req \in Requests : ChatbotQuery(req)
    \/ QueryStrip
    \/ QueryCheck
    \/ \E ok \in BOOLEAN : QueryImport(ok)
    \/ QuerySession
    \/ \E ok \in BOOLEAN : QueryProcess(ok)
    \/ QueryExcept
    \/ QueryDone

\* the server handles requests to the two endpoints, interleaved
ServerNext == PdfNext \/ ChatbotNext

ServerSpec == Init /\ [][ServerNext]_svars

\* C29: when the AI summary is not valid JSON the client of /process-pdf
\* gets a 500 whose detail begins with 'Failed to parse AI response as
\* JSON', every other processing failure gets 'Failed to process PDF', and
\* on every path out of the handler after the temporary file was created
\* the file is unlinked.
C29_ParseErrorDetail ==
    p_pc = "responded" =>
        /\ (\E i \in 1..Len(p_raised) : p_raised[i].type = "JSONDecodeError")
              => /\ p_response.status = 500
                 /\ p_response.detail = "Failed to parse AI response as JSON"
        /\ (/\ p_raised # <<>>
            /\ p_raised[1].type # "JSONDecodeError")
              => /\ p_response.status = 500
                 /\ p_response.detail = "Failed to process PDF"
        /\ temp_file \in {"none", "unlinked"}
        /\ temp_file = "none" => p_response.status = 400

\* C30: in /chatbot/query an empty or missing query gets a 400 'Query is
\* required', and every exception other than HTTPException raised inside
\* the try block gets the fallback response with success true that echoes
\* the query and the session id.
C30_FallbackAlways ==
    q_pc = "responded" =>
        /\ (request.query.kind = "absent" \/ request.query = [kind |-> "str", value |-> <<>>])
              => /\ q_response.status = 400
                 /\ q_response.detail = "Query is required"
        /\ (\E i \in 1..Len(q_raised) : q_raised[i].type \in PlainExceptions)
              => /\ q_response.status = 200
                 /\ q_response.success = "True"
                 /\ q_response.detail = "fallback"
                 /\ q_response.query = query.value
                 /\ q_response.sessionId = session_id.value

====
